---- MODULE Spec2Model ----
(***************************************************************************)
(* duckli: the setup state machine and the chat session of                 *)
(* src/source/cli.tsx (cli entry point, lines 1-81, and the App            *)
(* component, lines 83-734).                                               *)
(*                                                                         *)
(* A text is a sequence of chunks; the chunk " " is a run of white space,  *)
(* every other chunk a run of other characters.  The empty text <<>>       *)
(* stands for '' and for undefined alike: the code only ever tests texts   *)
(* for truthiness before it uses them.                                     *)
(*                                                                         *)
(* The component is rendered by React.  A handler's state updates are      *)
(* committed together, then the effects whose dependencies changed run on  *)
(* the committed values, and so on until a render changes nothing: every   *)
(* action below is one handler (or one resumed async function) followed by *)
(* that settling.                                                          *)
(***************************************************************************)
EXTENDS Integers, Sequences, FiniteSets

VARIABLES
    \* the command line and the environment (cli.tsx 48-72)
    flagApiKey, envApiKey, initialModel, initialPersonality, reconfigure,
    \* ~/.duckli/config.json, and whether fs.mkdir / fs.writeFile succeed
    file, fsWritable,
    \* useState of App (cli.tsx 184-200)
    messages, input, isLoading, isInputMode, setupStep, tempApiKey,
    selectedPersonalityIndex, availableModels, selectedModel,
    finalApiKey, finalModel, finalPersonality, configLoaded,
    \* async functions suspended at an await
    loadPending, modelCalls, chatCalls,
    \* the process
    phase, run,
    \* history: what was observed of the run so far
    fileAtStart, written, lastRequest, turnsLeft, submitsLeft, sendCalls,
    userActed, prevRun

flags == <<flagApiKey, envApiKey, initialModel, initialPersonality, reconfigure>>
\* what stays as it is for the whole of a run
world == <<flags, fsWritable, run, fileAtStart, prevRun>>
comp == <<messages, input, isLoading, isInputMode, setupStep, tempApiKey,
          selectedPersonalityIndex, availableModels, selectedModel,
          finalApiKey, finalModel, finalPersonality, configLoaded>>
async == <<loadPending, modelCalls, chatCalls>>
vars == <<world, file, written, comp, async, phase, lastRequest, turnsLeft,
          submitsLeft, sendCalls, userActed>>

-----------------------------------------------------------------------------
(* Bounds *)

\* turns accepted in a run of Spec
MaxTurns == 1
\* api keys accepted in a run of Spec
MaxKeySubmits == 1
\* turns accepted in a run of SpecChat
MaxChatTurns == 2
\* runs of the program, one after the other, in SpecRuns
MaxRuns == 2
\* api keys accepted in a run of SpecLate
MaxResubmits == 2
\* turns accepted in a run of SpecLate
MaxLateTurns == 1
\* sendMessage calls counted per run
MaxSendCalls == 2

-----------------------------------------------------------------------------
(* Texts *)

Empty == <<>>
WS == " "

\* JavaScript's a || b on strings
Or(a, b) == IF a # Empty THEN a ELSE b

RECURSIVE TrimStart(_)
TrimStart(t) == IF t # Empty /\ Head(t) = WS THEN TrimStart(Tail(t)) ELSE t

RECURSIVE TrimEnd(_)
TrimEnd(t) ==
    IF t # Empty /\ t[Len(t)] = WS THEN TrimEnd(SubSeq(t, 1, Len(t) - 1)) ELSE t

\* String.prototype.trim
Trim(t) == TrimEnd(TrimStart(t))

-----------------------------------------------------------------------------
(* Program constants *)

\* setFinalModel(savedConfig.model || ...), setSelectedModel(...)
FreeModel == <<"meta-llama/llama-3.3-8b-instruct:", "free">>
\* the fallback of a failed model listing; the --model default of the help text
SonnetModel == <<"anthropic/claude-3.5-sonnet">>
Cheerful == <<"cheerful">>

\* the personalities of prompts.js, in the order of the help text
PersonalityIds ==
    << <<"cheerful">>, <<"sarcastic">>, <<"apathetic">>,
       <<"deadpan">>, <<"funny">>, <<"serious">> >>

getPersonalityOptions == [i \in 1..Len(PersonalityIds) |-> [value |-> PersonalityIds[i]]]

InCatalog(id) == \E i \in 1..Len(PersonalityIds) : PersonalityIds[i] = id

\* lookup by id, failing over to the default entry
getPersonalityById(id) ==
    LET hit == IF InCatalog(id) THEN id ELSE Cheerful
    IN [id |-> hit,
        systemPrompt |-> <<"system prompt of">> \o hit,
        welcomeMessage |-> <<"welcome of">> \o hit]

-----------------------------------------------------------------------------
(* The config file (cli.tsx 132-133, 213-238) *)

Absent == [kind |-> "absent", apiKey |-> Empty, model |-> Empty, personality |-> Empty]
Corrupt == [kind |-> "corrupt", apiKey |-> Empty, model |-> Empty, personality |-> Empty]

Config(k, m, p) == [apiKey |-> k, model |-> m, personality |-> p]

\* JSON.stringify(config, null, 2): a string field is kept as it is
Stringify(c) ==
    [kind |-> "json", apiKey |-> c.apiKey, model |-> c.model,
     personality |-> c.personality]

\* mkdir and writeFile; a failure is logged and swallowed
saveConfig(f, c) == IF fsWritable THEN Stringify(c) ELSE f

\* readFile and JSON.parse; null when either throws; a field that the record
\* lacks reads as undefined
loadConfig(f) ==
    IF f.kind = "json"
    THEN [null |-> FALSE, apiKey |-> f.apiKey, model |-> f.model,
          personality |-> f.personality]
    ELSE [null |-> TRUE, apiKey |-> Empty, model |-> Empty, personality |-> Empty]

\* unlink; "File might not exist, that's ok"
clearConfig(f) == Absent

-----------------------------------------------------------------------------
(* The component's state as one value, and what a render computes from it *)

\* the key of the flag or the environment, --reconfigure or not
initialApiKeyKept == Or(flagApiKey, envApiKey)

\* cli.tsx 68-72: flag or environment variable, dropped on --reconfigure
initialApiKey == IF reconfigure THEN Empty ELSE Or(flagApiKey, envApiKey)

St ==
    [messages |-> messages, input |-> input, isLoading |-> isLoading,
     isInputMode |-> isInputMode, setupStep |-> setupStep,
     tempApiKey |-> tempApiKey,
     selectedPersonalityIndex |-> selectedPersonalityIndex,
     availableModels |-> availableModels, selectedModel |-> selectedModel,
     finalApiKey |-> finalApiKey, finalModel |-> finalModel,
     finalPersonality |-> finalPersonality, configLoaded |-> configLoaded]

\* the content of a message whose content is undefined
Undefined == <<"undefined">>

Msg(r, c) == [role |-> r, content |-> c]

needsSetup(s) == (initialApiKey = Empty /\ s.finalApiKey = Empty) \/ reconfigure

\* MessageRenderer calls content.split: the chat screen cannot render a
\* message without content
RenderThrows(s) ==
    /\ s.setupStep = "complete"
    /\ \E i \in 1..Len(s.messages) : s.messages[i].content = Undefined

\* the api-key screen shows its TextInput once the config is loaded
ApiKeyInputShown(s) == s.setupStep = "api-key" /\ s.configLoaded
\* the model screen shows its TextInput unless a call is in flight
ModelInputShown(s) == s.setupStep = "model-selection" /\ ~s.isLoading
\* a chat TextInput that every screen would show
ChatInputShownInAnyStep(s) == s.isInputMode /\ ~s.isLoading

\* the chat screen shows its TextInput
ChatInputShown(s) == s.setupStep = "complete" /\ s.isInputMode /\ ~s.isLoading

-----------------------------------------------------------------------------
(* The effects (cli.tsx 269-336) *)

ResolutionDeps(s) ==
    <<initialApiKey, initialModel, initialPersonality, needsSetup(s),
      s.configLoaded, s.finalApiKey, s.finalModel, s.finalPersonality>>

\* the state updates of the resolution effect, run on the render s
ResolutionEffect(s) ==
    IF /\ ~needsSetup(s) /\ s.configLoaded
       /\ s.finalApiKey # Empty /\ s.finalModel # Empty
       /\ s.finalPersonality # Empty
    THEN [s EXCEPT !.setupStep = "complete",
                   !.finalApiKey = Or(initialApiKey, s.finalApiKey),
                   !.finalModel = Or(initialModel, s.finalModel),
                   !.finalPersonality = Or(initialPersonality, s.finalPersonality)]
    ELSE IF s.configLoaded /\ ~needsSetup(s)
    THEN IF s.finalApiKey = Empty /\ initialApiKey = Empty
         THEN [s EXCEPT !.setupStep = "api-key"]
         ELSE IF s.finalModel = Empty /\ initialModel = Empty
         THEN [s EXCEPT !.setupStep = "model-selection"]
         ELSE IF s.finalPersonality = Empty /\ initialPersonality = Empty
         THEN [s EXCEPT !.setupStep = "personality-selection"]
         ELSE [s EXCEPT !.setupStep = "complete"]
    ELSE s

CompleteDeps(s) ==
    <<s.setupStep, s.finalApiKey, s.finalModel, s.finalPersonality,
      s.configLoaded, initialApiKey>>

\* the save-on-complete effect acts on the render s
CompleteFires(s) ==
    s.setupStep = "complete" /\ s.finalApiKey # Empty /\ s.configLoaded

\* "Only save if not using command line args"
CompleteSaves(s) == CompleteFires(s) /\ initialApiKey = Empty

WelcomeOf(s) ==
    Msg("assistant", getPersonalityById(Or(s.finalPersonality, Cheerful)).welcomeMessage)

\* effects whose welcome message is added to the Transcript
EffectsOfAppending(s, doResolution, doComplete) ==
    LET a == IF doResolution THEN ResolutionEffect(s) ELSE s
    IN IF doComplete /\ CompleteFires(s)
       THEN [a EXCEPT !.messages = Append(s.messages, WelcomeOf(s)),
                      !.isInputMode = TRUE]
       ELSE a

\* the state updates of both effects of one render: each reads the render s,
\* and they set different fields
EffectsOf(s, doResolution, doComplete) ==
    LET a == IF doResolution THEN ResolutionEffect(s) ELSE s
    IN IF doComplete /\ CompleteFires(s)
       THEN [a EXCEPT !.messages = <<WelcomeOf(s)>>, !.isInputMode = TRUE]
       ELSE a

\* Commit the state cur after the render prev, run the effects whose
\* dependencies changed, and repeat until a render changes nothing.  f is the
\* config file, sv the configs handed to saveConfig on the way.
RECURSIVE Settle(_, _, _, _)
Settle(prev, cur, f, sv) ==
    IF RenderThrows(cur)
    THEN [s |-> cur, file |-> f, saved |-> sv, crashed |-> TRUE]
    ELSE LET doR == ResolutionDeps(cur) # ResolutionDeps(prev)
             doC == CompleteDeps(cur) # CompleteDeps(prev)
             next == EffectsOf(cur, doR, doC)
             saves == doC /\ CompleteSaves(cur)
             c == Config(cur.finalApiKey, cur.finalModel, cur.finalPersonality)
             f2 == IF saves THEN saveConfig(f, c) ELSE f
             sv2 == IF saves THEN Append(sv, c) ELSE sv
         IN IF next = cur
            THEN [s |-> cur, file |-> f2, saved |-> sv2, crashed |-> FALSE]
            ELSE Settle(cur, next, f2, sv2)

\* the state before the first render (cli.tsx 184-200)
InitialState ==
    [messages |-> <<>>, input |-> Empty, isLoading |-> FALSE,
     isInputMode |-> FALSE, setupStep |-> "api-key", tempApiKey |-> Empty,
     selectedPersonalityIndex |-> 0, availableModels |-> <<>>,
     selectedModel |-> Empty, finalApiKey |-> Or(initialApiKey, Empty),
     finalModel |-> Or(initialModel, Empty),
     finalPersonality |-> Or(initialPersonality, Cheerful),
     configLoaded |-> FALSE]

\* loadSavedConfig up to its first await (cli.tsx 242-254): with a key from
\* the command line it sets configLoaded and returns
LoadStartsPending == initialApiKey = Empty

\* the first render: every effect runs, on the initial state
MountedOn(f) ==
    LET s0 == InitialState
        e == EffectsOf(s0, TRUE, TRUE)
        s1 == IF LoadStartsPending THEN e ELSE [e EXCEPT !.configLoaded = TRUE]
    IN Settle(s0, s1, f, <<>>)

Mounted == MountedOn(file)

-----------------------------------------------------------------------------
(* The model listing (cli.tsx 369-425) *)

MinContextLength == 4000
MaxModels == 15

PopularModels ==
    << <<"anthropic/claude-3.5-sonnet">>, <<"openai/gpt-4">>,
       <<"anthropic/claude-3-haiku">>, <<"openai/gpt-3.5-turbo">> >>

\* Array.prototype.indexOf, counting from 1; 0 when absent
IndexOf(seq, x) ==
    IF \E i \in 1..Len(seq) : seq[i] = x
    THEN CHOOSE i \in 1..Len(seq) :
             seq[i] = x /\ \A j \in 1..(i - 1) : seq[j] # x
    ELSE 0

\* String.prototype.includes, for a chunk
Includes(t, chunk) == \E i \in 1..Len(t) : t[i] = chunk

\* the display names the listing may hold, in the order of localeCompare
Collation ==
    << <<"Alpha">>, <<"anthropic/claude-3-haiku">>, <<"Beta">>,
       <<"Claude 3.5 Sonnet">>, <<"Delta">>, <<"Echo">>, <<"Eta">>,
       <<"GPT-3.5 Turbo">>, <<"GPT-4">>, <<"Iota">>, <<"Kappa">>,
       <<"Lambda">>, <<"m/gamma">>, <<"Mu">>, <<"Nu">>,
       <<"openai/gpt-4">>, <<"Theta">>, <<"vendor/", "free", "-model">>,
       <<"vendor/small">>, <<"Xi">>, <<"zeta/model">> >>

\* String.prototype.localeCompare, as a sign
localeCompare(a, b) ==
    LET ia == IndexOf(Collation, a)
        ib == IndexOf(Collation, b)
    IN IF ia < ib THEN -1 ELSE IF ia > ib THEN 1 ELSE 0

\* a comparator that knows no popular list
CompareModelsByName(a, b) == localeCompare(a.name, b.name)

\* the comparator of the sort (cli.tsx 395-411), as a sign
CompareModels(a, b) ==
    LET aIndex == IndexOf(PopularModels, a.id)
        bIndex == IndexOf(PopularModels, b.id)
    IN IF aIndex # 0 /\ bIndex # 0
       THEN (IF aIndex < bIndex THEN -1 ELSE IF aIndex > bIndex THEN 1 ELSE 0)
       ELSE IF aIndex # 0 THEN -1
       ELSE IF bIndex # 0 THEN 1
       ELSE localeCompare(a.name, b.name)

\* Array.prototype.filter
RECURSIVE Filter(_)
Filter(ms) ==
    IF ms = <<>> THEN <<>>
    ELSE LET m == Head(ms)
         IN IF ~Includes(m.id, "free") /\ m.context_length >= MinContextLength
            THEN <<m>> \o Filter(Tail(ms))
            ELSE Filter(Tail(ms))

\* name: model.name || model.id
Normalize(ms) ==
    [i \in 1..Len(ms) |->
        [id |-> ms[i].id, name |-> Or(ms[i].name, ms[i].id),
         context_length |-> ms[i].context_length]]

\* x goes before the first element that the comparator puts after it
RECURSIVE Insert(_, _)
Insert(sorted, x) ==
    IF sorted = <<>> THEN <<x>>
    ELSE IF CompareModels(x, Head(sorted)) < 0 THEN <<x>> \o sorted
    ELSE <<Head(sorted)>> \o Insert(Tail(sorted), x)

\* Array.prototype.sort: stable
RECURSIVE Sort(_, _)
Sort(ms, acc) == IF ms = <<>> THEN acc ELSE Sort(Tail(ms), Insert(acc, Head(ms)))

\* slice(0, 15)
Slice(ms) == SubSeq(ms, 1, IF Len(ms) < MaxModels THEN Len(ms) ELSE MaxModels)

ProcessModels(raw) == Slice(Sort(Normalize(Filter(raw)), <<>>))

-----------------------------------------------------------------------------
(* The handlers, as the state each leaves to be committed *)

\* a load that takes the key of the record and the default model
LoadedStateDefaultModel(s, c) ==
    IF ~c.null /\ c.apiKey # Empty
    THEN [s EXCEPT !.finalApiKey = c.apiKey,
                   !.finalModel = FreeModel,
                   !.finalPersonality = Or(c.personality, Cheerful),
                   !.setupStep = "complete",
                   !.configLoaded = TRUE]
    ELSE [s EXCEPT !.configLoaded = TRUE]

\* a load that goes on to the chat whatever it read
LoadedStateRegardless(s, c) ==
    [s EXCEPT !.finalApiKey = IF c.null THEN Empty ELSE c.apiKey,
              !.setupStep = "complete",
              !.configLoaded = TRUE]

\* loadSavedConfig after loadConfig resolved with c (cli.tsx 256-263)
LoadedState(s, c) ==
    IF ~c.null /\ c.apiKey # Empty
    THEN [s EXCEPT !.finalApiKey = c.apiKey,
                   !.finalModel = Or(c.model, FreeModel),
                   !.finalPersonality = Or(c.personality, Cheerful),
                   !.setupStep = "complete",
                   !.configLoaded = TRUE]
    ELSE [s EXCEPT !.configLoaded = TRUE]

\* loadSavedConfig after clearConfig resolved (cli.tsx 249-254)
ClearedState(s) == [s EXCEPT !.configLoaded = TRUE]

\* handleApiKeySubmit accepts the typed key (cli.tsx 428)
ApiKeyAccepted(s) == Trim(s.tempApiKey) # Empty

\* handleApiKeySubmit, and fetchAvailableModels up to its await
ApiKeySubmitState(s) ==
    [s EXCEPT !.finalApiKey = Trim(s.tempApiKey), !.isLoading = TRUE]

\* fetchAvailableModels after a listing that succeeded (cli.tsx 383-417, 424)
ModelsFetchedState(s, raw) ==
    [s EXCEPT !.availableModels = ProcessModels(raw),
              !.selectedModel = FreeModel,
              !.setupStep = "model-selection",
              !.isLoading = FALSE]

\* fetchAvailableModels after a listing that threw (cli.tsx 418-424)
ModelsFailedState(s) ==
    [s EXCEPT !.availableModels = <<>>,
              !.finalModel = SonnetModel,
              !.setupStep = "personality-selection",
              !.isLoading = FALSE]

ModelAccepted(s) == Trim(s.selectedModel) # Empty

\* handleModelSubmit: both branches do the same (cli.tsx 444-451)
ModelSubmitState(s) ==
    [s EXCEPT !.finalModel = Trim(s.selectedModel),
              !.setupStep = "personality-selection"]

\* an up arrow that does not wrap around
UpIndexNoWrap(i) == i - 1

\* the cursor, counted from 0 (cli.tsx 351-356)
UpIndex(i) == IF i > 0 THEN i - 1 ELSE Len(getPersonalityOptions) - 1
DownIndex(i) == IF i < Len(getPersonalityOptions) - 1 THEN i + 1 ELSE 0

\* return on the personality screen (cli.tsx 357-362)
ConfirmState(s) ==
    IF s.selectedPersonalityIndex + 1 \in DOMAIN getPersonalityOptions
    THEN [s EXCEPT
             !.finalPersonality =
                 getPersonalityOptions[s.selectedPersonalityIndex + 1].value,
             !.setupStep = "complete"]
    ELSE s

\* the useInput handler is attached (cli.tsx 365-367)
InputHandlerActive(s) == s.setupStep # "complete"

\* a guard that does not look at isLoading
SendAcceptedWhileBusy(s) ==
    ~(Trim(s.input) = Empty \/ s.finalApiKey = Empty)

\* sendMessage goes past its first line (cli.tsx 455)
SendAccepted(s) ==
    ~(Trim(s.input) = Empty \/ s.isLoading \/ s.finalApiKey = Empty)

UserMessage(s) == Msg("user", Trim(s.input))

\* sendMessage up to its await (cli.tsx 457-464)
SentState(s) ==
    [s EXCEPT !.messages = Append(s.messages, UserMessage(s)),
              !.input = Empty,
              !.isLoading = TRUE]

\* JSON.stringify of one message: a key whose value is undefined is left out
EncodeMessage(m) ==
    IF m.content = Undefined
    THEN [role |-> m.role, content |-> <<>>, hasContent |-> FALSE]
    ELSE [role |-> m.role, content |-> m.content, hasContent |-> TRUE]

\* a request built from the Transcript after setMessages ran
BuildRequestFromUpdated(s) ==
    [model |-> s.finalModel,
     bearer |-> s.finalApiKey,
     messages |->
        <<EncodeMessage(Msg("system",
              getPersonalityById(Or(s.finalPersonality, Cheerful)).systemPrompt))>>
        \o [i \in 1..Len(s.messages) + 1 |->
               EncodeMessage(Append(s.messages, Msg("user", Trim(s.input)))[i])]
        \o <<EncodeMessage(Msg("user", Trim(s.input)))>>]

\* the completion request (cli.tsx 466-493): the messages of the render in
\* which sendMessage was created
BuildRequest(s) ==
    [model |-> s.finalModel,
     bearer |-> s.finalApiKey,
     messages |->
        <<EncodeMessage(Msg("system",
              getPersonalityById(Or(s.finalPersonality, Cheerful)).systemPrompt))>>
        \o [i \in 1..Len(s.messages) |-> EncodeMessage(s.messages[i])]
        \o <<EncodeMessage(UserMessage(s))>>]

NoRequest == [model |-> Empty, bearer |-> Empty, messages |-> <<>>]

\* what the body of the try block does with a response (cli.tsx 495-505):
\* it throws an Error with a message, or yields the content it read
Completion(resp) ==
    CASE resp.kind = "status" ->
            [threw |-> TRUE,
             detail |-> <<"OpenRouter API error:", WS, resp.status, WS, "status text">>]
      [] resp.kind = "transport" ->
            [threw |-> TRUE, detail |-> <<"request failed">>]
      [] resp.kind = "badjson" ->
            [threw |-> TRUE, detail |-> <<"invalid json response body">>]
      [] resp.kind \in {"nochoices", "emptychoices", "nomessage"} ->
            [threw |-> TRUE, detail |-> <<"Cannot read properties of undefined">>]
      [] resp.kind = "nocontent" ->
            [threw |-> FALSE, detail |-> Undefined]
      [] OTHER ->
            [threw |-> FALSE, detail |-> resp.content]

ErrorText(detail) ==
    <<"Sorry, I encountered an error:", WS>> \o detail
        \o <<".", WS, "Please check your API key and try again.">>

\* sendMessage after its await (cli.tsx 495-518)
RepliedState(s, resp) ==
    LET c == Completion(resp)
        m == IF c.threw THEN Msg("assistant", ErrorText(c.detail))
                        ELSE Msg("assistant", c.detail)
    IN [s EXCEPT !.messages = Append(s.messages, m), !.isLoading = FALSE]

-----------------------------------------------------------------------------
(* The inputs *)

FlagKeys == {Empty, <<"key-flag">>}
EnvKeys == {Empty, <<"key-env">>}
FlagModels == {Empty, <<"model-flag">>}
FlagPersonalities == {Empty, <<"sarcastic">>, <<"no-such-duck">>}

Cmd(k, e, m, p, r) ==
    [apiKey |-> k, env |-> e, model |-> m, personality |-> p, reconfigure |-> r]

\* without --reconfigure, every combination; with it, the flags that the
\* setup flow then meets
CommandLines ==
    {Cmd(k, e, m, p, FALSE) :
        k \in FlagKeys, e \in EnvKeys, m \in FlagModels, p \in FlagPersonalities}
    \cup {Cmd(Empty, Empty, Empty, Empty, TRUE),
          Cmd(<<"key-flag">>, <<"key-env">>, <<"model-flag">>, <<"sarcastic">>, TRUE)}

FileKey == <<"key-file">>
FileModel == <<"model-file">>
FilePersonality == <<"funny">>

\* a personality on file that the catalog does not hold
FileDuck == <<"duck-on-file">>

FullRecord == Stringify(Config(FileKey, FileModel, FilePersonality))
OddRecord == Stringify(Config(FileKey, FileModel, FileDuck))

Files ==
    {Absent, Corrupt, FullRecord, OddRecord,
     Stringify(Config(FileKey, Empty, FilePersonality)),
     Stringify(Config(FileKey, FileModel, Empty)),
     Stringify(Config(Empty, FileModel, FilePersonality))}

TypedKeys == {<<WS>>, <<WS, "key-typed", WS>>}
TypedModels == {<<WS>>, <<"model-typed", WS>>}
TypedTurns == {<<WS>>, <<WS, "fix", WS, "my", WS, "loop", WS>>}

RawModel(id, name, len) == [id |-> id, name |-> name, context_length |-> len]

RawLists ==
    { <<>>,
      << RawModel(<<"zeta/model">>, Empty, 8000),
         RawModel(<<"vendor/", "free", "-model">>, Empty, 8000),
         RawModel(<<"vendor/small">>, Empty, 2000),
         RawModel(<<"openai/gpt-4">>, <<"GPT-4">>, 8000),
         RawModel(<<"a/b">>, <<"Alpha">>, 4000) >> }

\* a listing fails: status, transport, body that is no JSON, entry without id
ListingFailures == {"status", "transport", "badjson", "noid"}

Response(kind, status, content) == [kind |-> kind, status |-> status, content |-> content]

ChatResponses ==
    {Response("ok", "200", <<"have", WS, "you", WS, "tried", WS, "quacking?">>),
     Response("status", "500", Empty),
     Response("status", "401", Empty),
     Response("transport", "", Empty),
     Response("badjson", "200", Empty),
     Response("nochoices", "200", Empty),
     Response("emptychoices", "200", Empty),
     Response("nomessage", "200", Empty),
     Response("nocontent", "200", Empty)}

-----------------------------------------------------------------------------
(* The state machine *)

NoRun == [ran |-> FALSE, overrides |-> FALSE, saved |-> FALSE, file |-> Absent]

\* the component takes the settled state r
Rendered(r) ==
    /\ messages' = r.s.messages
    /\ input' = r.s.input
    /\ isLoading' = r.s.isLoading
    /\ isInputMode' = r.s.isInputMode
    /\ setupStep' = r.s.setupStep
    /\ tempApiKey' = r.s.tempApiKey
    /\ selectedPersonalityIndex' = r.s.selectedPersonalityIndex
    /\ availableModels' = r.s.availableModels
    /\ selectedModel' = r.s.selectedModel
    /\ finalApiKey' = r.s.finalApiKey
    /\ finalModel' = r.s.finalModel
    /\ finalPersonality' = r.s.finalPersonality
    /\ configLoaded' = r.s.configLoaded
    /\ file' = r.file
    /\ phase' = IF r.crashed THEN "crashed" ELSE "running"

\* the same within a run: written keeps what the run last handed to saveConfig
Commit(r) ==
    /\ Rendered(r)
    /\ written' = IF r.saved = <<>> THEN written ELSE r.saved

\* render(<App .../>) (cli.tsx 74-81) and the first render with its effects,
\* once the command line, the environment and the disk are given
Started ==
    /\ fileAtStart = file
    /\ \E r \in {Mounted} :
          /\ messages = r.s.messages
          /\ input = r.s.input
          /\ isLoading = r.s.isLoading
          /\ isInputMode = r.s.isInputMode
          /\ setupStep = r.s.setupStep
          /\ tempApiKey = r.s.tempApiKey
          /\ selectedPersonalityIndex = r.s.selectedPersonalityIndex
          /\ availableModels = r.s.availableModels
          /\ selectedModel = r.s.selectedModel
          /\ finalApiKey = r.s.finalApiKey
          /\ finalModel = r.s.finalModel
          /\ finalPersonality = r.s.finalPersonality
          /\ configLoaded = r.s.configLoaded
          /\ written = r.saved
          /\ phase = IF r.crashed THEN "crashed" ELSE "running"
    /\ loadPending = LoadStartsPending
    /\ modelCalls = 0
    /\ chatCalls = 0
    /\ lastRequest = NoRequest
    /\ sendCalls = 0
    /\ userActed = FALSE

CommandLine(c) ==
    /\ flagApiKey = c.apiKey
    /\ envApiKey = c.env
    /\ initialModel = c.model
    /\ initialPersonality = c.personality
    /\ reconfigure = c.reconfigure

\* a first run, on one of the command lines cmds and one of the files fs
Boot(cmds, fs, turns, submits) ==
    /\ \E c \in cmds : CommandLine(c)
    /\ file \in fs
    /\ fsWritable \in BOOLEAN
    /\ run = 1
    /\ prevRun = NoRun
    /\ turnsLeft = turns
    /\ submitsLeft = submits
    /\ Started

Init == Boot(CommandLines, Files, MaxTurns, MaxKeySubmits)

Running == phase = "running"

\* loadSavedConfig resumes after await loadConfig() (cli.tsx 256-263)
loadSavedConfig ==
    /\ Running /\ loadPending /\ ~reconfigure
    /\ \E r \in {Settle(St, LoadedState(St, loadConfig(file)), file, <<>>)} : Commit(r)
    /\ loadPending' = FALSE
    /\ UNCHANGED <<world, modelCalls, chatCalls, lastRequest, turnsLeft,
                   submitsLeft, sendCalls, userActed>>

\* loadSavedConfig resumes after await clearConfig() (cli.tsx 249-254)
loadSavedConfigReconfigure ==
    /\ Running /\ loadPending /\ reconfigure
    /\ \E r \in {Settle(St, ClearedState(St), clearConfig(file), <<>>)} : Commit(r)
    /\ loadPending' = FALSE
    /\ UNCHANGED <<world, modelCalls, chatCalls, lastRequest, turnsLeft,
                   submitsLeft, sendCalls, userActed>>

\* onChange of the api-key TextInput (cli.tsx 560-566)
setTempApiKey ==
    /\ Running /\ ApiKeyInputShown(St)
    /\ \E t \in TypedKeys : \E r \in {Settle(St, [St EXCEPT !.tempApiKey = t], file, <<>>)} : Commit(r)
    /\ userActed' = TRUE
    /\ UNCHANGED <<world, async, lastRequest, turnsLeft, submitsLeft, sendCalls>>

\* onSubmit of the api-key TextInput (cli.tsx 427-434)
handleApiKeySubmit ==
    /\ Running /\ ApiKeyInputShown(St)
    /\ IF ApiKeyAccepted(St)
       THEN /\ submitsLeft > 0
            /\ submitsLeft' = submitsLeft - 1
            /\ \E r \in {Settle(St, ApiKeySubmitState(St), file, <<>>)} : Commit(r)
            /\ modelCalls' = modelCalls + 1
       ELSE UNCHANGED <<comp, file, written, phase, modelCalls, submitsLeft>>
    /\ userActed' = TRUE
    /\ UNCHANGED <<world, loadPending, chatCalls, lastRequest, turnsLeft, sendCalls>>

\* fetchAvailableModels resumes with a listing (cli.tsx 379-417, 424)
fetchAvailableModelsOk ==
    /\ Running /\ modelCalls > 0
    /\ \E raw \in RawLists :
           \E r \in {Settle(St, ModelsFetchedState(St, raw), file, <<>>)} : Commit(r)
    /\ modelCalls' = modelCalls - 1
    /\ UNCHANGED <<world, loadPending, chatCalls, lastRequest, turnsLeft,
                   submitsLeft, sendCalls, userActed>>

\* fetchAvailableModels resumes in its catch block (cli.tsx 418-424)
fetchAvailableModelsFailed ==
    /\ Running /\ modelCalls > 0
    /\ \E why \in ListingFailures :
           \E r \in {Settle(St, ModelsFailedState(St), file, <<>>)} : Commit(r)
    /\ modelCalls' = modelCalls - 1
    /\ UNCHANGED <<world, loadPending, chatCalls, lastRequest, turnsLeft,
                   submitsLeft, sendCalls, userActed>>

\* onChange of the model TextInput (cli.tsx 654-659)
setSelectedModel ==
    /\ Running /\ ModelInputShown(St)
    /\ \E t \in TypedModels :
           \E r \in {Settle(St, [St EXCEPT !.selectedModel = t], file, <<>>)} : Commit(r)
    /\ userActed' = TRUE
    /\ UNCHANGED <<world, async, lastRequest, turnsLeft, submitsLeft, sendCalls>>

\* onSubmit of the model TextInput (cli.tsx 436-452)
handleModelSubmit ==
    /\ Running /\ ModelInputShown(St)
    /\ IF ModelAccepted(St)
       THEN \E r \in {Settle(St, ModelSubmitState(St), file, <<>>)} : Commit(r)
       ELSE UNCHANGED <<comp, file, written, phase>>
    /\ userActed' = TRUE
    /\ UNCHANGED <<world, async, lastRequest, turnsLeft, submitsLeft, sendCalls>>

\* the useInput handler on the personality screen (cli.tsx 348-356)
pressUp ==
    /\ Running /\ InputHandlerActive(St) /\ setupStep = "personality-selection"
    /\ \E r \in {Settle(St, [St EXCEPT !.selectedPersonalityIndex = UpIndex(@)],
                     file, <<>>)} : Commit(r)
    /\ userActed' = TRUE
    /\ UNCHANGED <<world, async, lastRequest, turnsLeft, submitsLeft, sendCalls>>

pressDown ==
    /\ Running /\ InputHandlerActive(St) /\ setupStep = "personality-selection"
    /\ \E r \in {Settle(St, [St EXCEPT !.selectedPersonalityIndex = DownIndex(@)],
                     file, <<>>)} : Commit(r)
    /\ userActed' = TRUE
    /\ UNCHANGED <<world, async, lastRequest, turnsLeft, submitsLeft, sendCalls>>

\* return on the personality screen (cli.tsx 357-362)
pressReturn ==
    /\ Running /\ InputHandlerActive(St) /\ setupStep = "personality-selection"
    /\ \E r \in {Settle(St, ConfirmState(St), file, <<>>)} : Commit(r)
    /\ userActed' = TRUE
    /\ UNCHANGED <<world, async, lastRequest, turnsLeft, submitsLeft, sendCalls>>

\* Esc: process.exit(0) while the useInput handler is attached (cli.tsx
\* 339-342, 365-367); on the chat screen nothing listens for it
pressEscape ==
    /\ Running
    /\ phase' = IF InputHandlerActive(St) THEN "exited" ELSE phase
    /\ userActed' = TRUE
    /\ UNCHANGED <<world, file, written, comp, async, lastRequest, turnsLeft,
                   submitsLeft, sendCalls>>

\* Ctrl+C: process.exit(0) in the useInput handler (cli.tsx 343-345); on the
\* chat screen ink itself exits, render being called without exitOnCtrlC:
\* false (cli.tsx 74-81)
pressCtrlC ==
    /\ Running
    /\ phase' = "exited"
    /\ userActed' = TRUE
    /\ UNCHANGED <<world, file, written, comp, async, lastRequest, turnsLeft,
                   submitsLeft, sendCalls>>

\* onChange of the chat TextInput (cli.tsx 719-728)
setInput ==
    /\ Running /\ ChatInputShown(St)
    /\ \E t \in TypedTurns : \E r \in {Settle(St, [St EXCEPT !.input = t], file, <<>>)} : Commit(r)
    /\ userActed' = TRUE
    /\ UNCHANGED <<world, async, lastRequest, turnsLeft, submitsLeft, sendCalls>>

\* sendMessage up to its await (cli.tsx 454-493)
sendMessage ==
    /\ IF SendAccepted(St)
       THEN /\ turnsLeft > 0
            /\ turnsLeft' = turnsLeft - 1
            /\ \E r \in {Settle(St, SentState(St), file, <<>>)} : Commit(r)
            /\ chatCalls' = chatCalls + 1
            /\ lastRequest' = BuildRequest(St)
       ELSE UNCHANGED <<comp, file, written, phase, chatCalls, lastRequest,
                        turnsLeft>>
    /\ userActed' = TRUE
    /\ UNCHANGED <<world, loadPending, modelCalls, submitsLeft>>

\* onSubmit of the chat TextInput (cli.tsx 719-728)
submitTurn ==
    /\ Running /\ ChatInputShown(St)
    /\ sendMessage
    /\ UNCHANGED sendCalls

\* sendMessage resumes with the response resp (cli.tsx 495-518)
sendMessageResumes(resp) ==
    /\ Running /\ chatCalls > 0
    /\ \E r \in {Settle(St, RepliedState(St, resp), file, <<>>)} : Commit(r)
    /\ chatCalls' = chatCalls - 1
    /\ UNCHANGED <<world, loadPending, modelCalls, lastRequest, turnsLeft,
                   submitsLeft, sendCalls, userActed>>

completionResolves == \E resp \in ChatResponses : sendMessageResumes(resp)

Next ==
    \/ loadSavedConfig
    \/ loadSavedConfigReconfigure
    \/ setTempApiKey
    \/ handleApiKeySubmit
    \/ fetchAvailableModelsOk
    \/ fetchAvailableModelsFailed
    \/ setSelectedModel
    \/ handleModelSubmit
    \/ pressUp
    \/ pressDown
    \/ pressReturn
    \/ pressEscape
    \/ pressCtrlC
    \/ setInput
    \/ submitTurn
    \/ completionResolves

Spec == Init /\ [][Next]_vars

-----------------------------------------------------------------------------
(* What the claims speak of *)

\* a field was given on the command line or in the environment
AnyOverride ==
    \/ flagApiKey # Empty \/ envApiKey # Empty
    \/ initialModel # Empty \/ initialPersonality # Empty

\* the record on disk when the run began, as loadConfig reads it
RecordAtStart == loadConfig(fileAtStart)

\* the record on disk when the run began holds a credential
RecordUsable == ~RecordAtStart.null /\ RecordAtStart.apiKey # Empty

ResolvedConfig == Config(finalApiKey, finalModel, finalPersonality)

\* C1: in a run with an explicit override of any field (and, here, without
\* --reconfigure), saveConfig is never invoked and the record on disk stays
\* as it was at startup.
C1_OverrideNeverSaves ==
    (AnyOverride /\ ~reconfigure) => (written = <<>> /\ file = fileAtStart)

\* the value that the documented priority gives a field: the flag, else the
\* environment, else the record on disk at startup
PriorityKey ==
    Or(flagApiKey, Or(envApiKey, IF RecordUsable THEN RecordAtStart.apiKey ELSE Empty))
PriorityModel ==
    Or(initialModel, IF RecordUsable THEN RecordAtStart.model ELSE Empty)
PriorityPersonality ==
    Or(initialPersonality, IF RecordUsable THEN RecordAtStart.personality ELSE Empty)

\* C2: without --reconfigure, every completion request carries, for each
\* field that a flag, the environment or the record on disk supplies, the
\* value of the highest of these sources.
C2_RequestsFollowPriority ==
    (lastRequest # NoRequest /\ ~reconfigure) =>
        /\ PriorityKey # Empty => lastRequest.bearer = PriorityKey
        /\ PriorityModel # Empty => lastRequest.model = PriorityModel
        /\ PriorityPersonality # Empty =>
               lastRequest.messages[1].content =
                   getPersonalityById(PriorityPersonality).systemPrompt

\* the record on disk at startup has a credential and lacks exactly the model
LacksOnlyModel ==
    /\ RecordUsable
    /\ RecordAtStart.model = Empty /\ RecordAtStart.personality # Empty
LacksOnlyPersonality ==
    /\ RecordUsable
    /\ RecordAtStart.model # Empty /\ RecordAtStart.personality = Empty

\* C3: with a record on disk that has a credential and lacks exactly one of
\* model and personality, no flag at all and no --reconfigure, the machine,
\* once the record is loaded and as long as the user did nothing, waits in the
\* state of the missing field.
C3_WaitsForMissingField ==
    (/\ ~AnyOverride /\ ~reconfigure
     /\ ~loadPending /\ ~userActed /\ phase = "running") =>
        /\ LacksOnlyModel => setupStep = "model-selection"
        /\ LacksOnlyPersonality => setupStep = "personality-selection"

\* C6: with a credential from --api-key or the environment, no --model and
\* no --reconfigure, the machine is in Complete without having waited for any
\* input, and the model is the documented default.
C6_KeyOverrideSkipsSetup ==
    (initialApiKey # Empty /\ initialModel = Empty /\ phase = "running") =>
        (setupStep = "complete" /\ finalModel = SonnetModel)

\* C7: Esc ends the process from every state, and neither saves nor clears.
C7_EscapeAlwaysExits ==
    [][pressEscape => (phase' = "exited" /\ file' = file)]_vars

\* a completion call that failed: a status that is not a success, a transport
\* error, a body that is not what a completion is
FailedResponses == {r \in ChatResponses : r.kind # "ok"}

IsErrorEntry(m) ==
    /\ m.role = "assistant"
    /\ m.content # Undefined
    /\ Len(m.content) > 0
    /\ Head(m.content) = "Sorry, I encountered an error:"

\* C9: when the completion call of an accepted submit fails, the Transcript
\* gains one assistant Message that describes the error (with the status code
\* for a status failure), the process lives on and the busy flag is false.
C9_FailureBecomesErrorEntry ==
    [][\A resp \in FailedResponses :
          sendMessageResumes(resp) =>
              /\ Len(messages') = Len(messages) + 1
              /\ SubSeq(messages', 1, Len(messages)) = messages
              /\ IsErrorEntry(messages'[Len(messages')])
              /\ resp.kind = "status" =>
                     Includes(messages'[Len(messages')].content, resp.status)
              /\ phase' = "running"
              /\ isLoading' = FALSE]_vars

-----------------------------------------------------------------------------
(* The chat session at length: runs without --reconfigure, more turns *)

ChatCommandLines ==
    {Cmd(Empty, Empty, Empty, Empty, FALSE),
     Cmd(Empty, Empty, <<"model-flag">>, Empty, FALSE),
     Cmd(<<"key-flag">>, Empty, Empty, <<"sarcastic">>, FALSE),
     Cmd(Empty, <<"key-env">>, <<"model-flag">>, <<"no-such-duck">>, FALSE)}

InitChat == Boot(ChatCommandLines, {Absent, FullRecord}, MaxChatTurns, MaxKeySubmits)

\* without --reconfigure the record is never cleared and the personality
\* screen never shows
NextChat ==
    \/ loadSavedConfig
    \/ setTempApiKey
    \/ handleApiKeySubmit
    \/ fetchAvailableModelsOk
    \/ fetchAvailableModelsFailed
    \/ setSelectedModel
    \/ handleModelSubmit
    \/ pressEscape
    \/ pressCtrlC
    \/ setInput
    \/ submitTurn
    \/ completionResolves

SpecChat == InitChat /\ [][NextChat]_vars

\* the message list that the claim describes, from the state before the submit
C10_Messages ==
    <<[role |-> "system",
       content |-> getPersonalityById(Or(finalPersonality, Cheerful)).systemPrompt,
       hasContent |-> TRUE]>>
    \o [i \in 1..Len(messages) |->
           [role |-> messages[i].role, content |-> messages[i].content,
            hasContent |-> TRUE]]
    \o <<[role |-> "user", content |-> Trim(input), hasContent |-> TRUE]>>

\* C10: the request of an accepted submit lists the system prompt of the
\* active personality, then the Transcript as it was before the submit, then
\* the new user Message; its model and bearer token are the resolved ones.
C10_RequestShape ==
    [][turnsLeft' # turnsLeft =>
          /\ lastRequest'.messages = C10_Messages
          /\ lastRequest'.model = finalModel
          /\ lastRequest'.bearer = finalApiKey
          /\ finalModel' = finalModel /\ finalApiKey' = finalApiKey]_vars

\* a second turn was sent after a turn that failed: the request holds the
\* welcome message, the first turn and its error entry
C10_Witness ==
    /\ turnsLeft = 0
    /\ Len(lastRequest.messages) = 5
    /\ lastRequest.messages[1].role = "system"
    /\ lastRequest.messages[2].content = <<"welcome of", "cheerful">>
    /\ lastRequest.messages[4].role = "assistant"
    /\ Head(lastRequest.messages[4].content) = "Sorry, I encountered an error:"
    /\ lastRequest.messages[5].role = "user"

-----------------------------------------------------------------------------
(* sendMessage as a function of the rendered state *)

SendInputs == {Empty, <<WS>>, <<"fix">>, <<WS, "fix", WS>>}

\* a chat state, or the first screen of a run without a key; a completion
\* call may be in flight; any text may stand in the input
InitSend ==
    /\ \E c \in {Cmd(Empty, Empty, <<"model-flag">>, Empty, FALSE),
                 Cmd(<<"key-flag">>, Empty, <<"model-flag">>, Empty, FALSE)} :
           CommandLine(c)
    /\ file = Absent
    /\ fileAtStart = file
    /\ fsWritable \in BOOLEAN
    /\ run = 1
    /\ prevRun = NoRun
    /\ turnsLeft = MaxSendCalls
    /\ submitsLeft = 0
    /\ \E r \in {Mounted} : \E busy \in BOOLEAN : \E t \in SendInputs :
          /\ messages = IF busy /\ r.s.finalApiKey # Empty
                        THEN Append(r.s.messages, Msg("user", <<"earlier">>))
                        ELSE r.s.messages
          /\ input = t
          /\ isLoading = busy
          /\ isInputMode = r.s.isInputMode
          /\ setupStep = r.s.setupStep
          /\ tempApiKey = r.s.tempApiKey
          /\ selectedPersonalityIndex = r.s.selectedPersonalityIndex
          /\ availableModels = r.s.availableModels
          /\ selectedModel = r.s.selectedModel
          /\ finalApiKey = r.s.finalApiKey
          /\ finalModel = r.s.finalModel
          /\ finalPersonality = r.s.finalPersonality
          /\ configLoaded = r.s.configLoaded
          /\ written = r.saved
          /\ phase = "running"
          /\ chatCalls = IF busy /\ r.s.finalApiKey # Empty THEN 1 ELSE 0
    /\ loadPending = LoadStartsPending
    /\ modelCalls = 0
    /\ lastRequest = NoRequest
    /\ sendCalls = 0
    /\ userActed = FALSE

\* sendMessage is called, whatever the screen shows (cli.tsx 454)
callSendMessage ==
    /\ Running /\ sendCalls < MaxSendCalls
    /\ sendMessage
    /\ sendCalls' = sendCalls + 1

NextSend ==
    \/ callSendMessage
    \/ completionResolves

SpecSend == InitSend /\ [][NextSend]_vars

\* C8: a call of sendMessage with an input that trims to nothing, or while
\* isLoading is set, or without a resolved key, leaves the Transcript, the
\* busy flag and the input as they were and issues no completion request.
C8_SendIsNoOp ==
    [][(sendCalls' # sendCalls
          /\ (Trim(input) = Empty \/ isLoading \/ finalApiKey = Empty))
       => /\ messages' = messages
          /\ isLoading' = isLoading
          /\ input' = input
          /\ chatCalls' = chatCalls
          /\ lastRequest' = lastRequest
          /\ turnsLeft' = turnsLeft]_vars

\* every call was made with a turn typed, a key resolved and a call in
\* flight, and none was accepted
C8_Witness ==
    /\ sendCalls = MaxSendCalls
    /\ turnsLeft = MaxSendCalls
    /\ isLoading /\ chatCalls = 1
    /\ Trim(input) # Empty
    /\ finalApiKey # Empty
    /\ Len(messages) = 2
    /\ lastRequest = NoRequest

-----------------------------------------------------------------------------
(* --reconfigure: setup from the first screen, no chat *)

ReconfigureCommandLines ==
    {Cmd(Empty, Empty, Empty, Empty, TRUE),
     Cmd(Empty, <<"key-env">>, Empty, Empty, TRUE),
     Cmd(<<"key-flag">>, <<"key-env">>, <<"model-flag">>, <<"sarcastic">>, TRUE)}

InitReconfigure ==
    Boot(ReconfigureCommandLines, {Absent, Corrupt, OddRecord}, 0, MaxKeySubmits)

NextReconfigure ==
    \/ loadSavedConfigReconfigure
    \/ setTempApiKey
    \/ handleApiKeySubmit
    \/ fetchAvailableModelsOk
    \/ fetchAvailableModelsFailed
    \/ setSelectedModel
    \/ handleModelSubmit
    \/ pressUp
    \/ pressDown
    \/ pressReturn
    \/ pressEscape
    \/ pressCtrlC

SpecReconfigure == InitReconfigure /\ [][NextReconfigure]_vars

-----------------------------------------------------------------------------
(* One run after the other, on the same disk; no chat *)

RunsCommandLines ==
    {Cmd(Empty, Empty, Empty, Empty, FALSE),
     Cmd(Empty, Empty, <<"model-flag">>, Empty, FALSE)}

InitRuns == Boot(RunsCommandLines, {Absent, OddRecord}, 0, MaxKeySubmits)

\* the process has ended; the program is started again
startNextRun ==
    /\ phase \in {"exited", "crashed"}
    /\ run < MaxRuns
    /\ run' = run + 1
    /\ prevRun' = [ran |-> TRUE,
                   overrides |-> AnyOverride \/ reconfigure,
                   saved |-> written # <<>> /\ fsWritable,
                   file |-> file]
    /\ \E c \in RunsCommandLines :
          /\ flagApiKey' = c.apiKey
          /\ envApiKey' = c.env
          /\ initialModel' = c.model
          /\ initialPersonality' = c.personality
          /\ reconfigure' = c.reconfigure
    /\ fsWritable' \in BOOLEAN
    /\ fileAtStart' = file
    /\ \E f \in {file} : \E r \in {MountedOn(f)'} : Rendered(r) /\ written' = r.saved
    /\ loadPending' = LoadStartsPending'
    /\ modelCalls' = 0
    /\ chatCalls' = 0
    /\ lastRequest' = NoRequest
    /\ sendCalls' = 0
    /\ userActed' = FALSE
    /\ submitsLeft' = MaxKeySubmits
    /\ UNCHANGED turnsLeft

NextRuns ==
    \/ loadSavedConfig
    \/ setTempApiKey
    \/ handleApiKeySubmit
    \/ fetchAvailableModelsOk
    \/ fetchAvailableModelsFailed
    \/ setSelectedModel
    \/ handleModelSubmit
    \/ pressEscape
    \/ pressCtrlC
    \/ startNextRun

SpecRuns == InitRuns /\ [][NextRuns]_vars

\* C4: after a run without overrides that saved configuration C, a run
\* started with no flags, no key in the environment and no --reconfigure
\* stands in Complete as soon as the record is read, whatever the user does
\* or does not do, resolves exactly C, saves C again when the disk takes
\* writes, and leaves the record equal to C.
C4_RoundTrip ==
    (/\ run > 1
     /\ prevRun.saved /\ ~prevRun.overrides
     /\ ~AnyOverride /\ ~reconfigure
     /\ ~loadPending)
    => /\ setupStep = "complete"
       /\ Stringify(ResolvedConfig) = prevRun.file
       /\ file = prevRun.file
       /\ fsWritable => written # <<>>
       /\ \A i \in 1..Len(written) : written[i] = ResolvedConfig

\* the second run read the record that the first run saved with a model the
\* user typed, and reached Complete with no key pressed
C4_Witness ==
    /\ run = 2
    /\ prevRun.saved /\ ~prevRun.overrides
    /\ ~AnyOverride /\ ~reconfigure
    /\ ~loadPending /\ ~userActed
    /\ setupStep = "complete"
    /\ finalModel = <<"model-typed">>
    /\ fsWritable /\ written # <<>>
    /\ file = Stringify(ResolvedConfig)

-----------------------------------------------------------------------------
(* The first run: no flag, no key in the environment, nothing on disk *)

FirstRun == ~AnyOverride /\ ~reconfigure /\ fileAtStart = Absent

\* the catalog entry under the cursor
Highlighted == getPersonalityOptions[selectedPersonalityIndex + 1]

\* C11: in a first run a record is written only by the confirm on the
\* personality screen, and it holds the trimmed key, the trimmed model and
\* the id of the catalog entry under the cursor.
C11_SavedAsConfirmed ==
    [][(FirstRun /\ written' # written)
       => /\ setupStep = "personality-selection"
          /\ \A i \in 1..Len(written') :
                written'[i] = Config(finalApiKey, finalModel, Highlighted)]_vars

-----------------------------------------------------------------------------
(* The Transcript when the chat input opens *)

IsWelcome(m) ==
    /\ m.role = "assistant"
    /\ Len(m.content) > 0
    /\ Head(m.content) = "welcome of"

\* C12: whenever the chat input is shown the Transcript starts with the
\* welcome message of the resolved personality and holds no other welcome
\* message; until the first turn is sent that message is the whole
\* Transcript, so the input never opens on an empty Transcript.
C12_InputOpensOnWelcome ==
    (Running /\ ChatInputShown(St)) =>
       /\ messages # <<>>
       /\ messages[1] = WelcomeOf(St)
       /\ \A i \in 2..Len(messages) : ~IsWelcome(messages[i])
       /\ lastRequest = NoRequest => messages = <<WelcomeOf(St)>>

\* the input has opened, no turn was sent yet, on a run whose model came
\* first from the record and then from the flag: the welcome effect ran
\* twice
C12_Witness ==
    /\ Running /\ ChatInputShown(St)
    /\ lastRequest = NoRequest
    /\ fileAtStart = FullRecord
    /\ initialModel = <<"model-flag">>
    /\ finalModel = <<"model-flag">>
    /\ messages = <<Msg("assistant", <<"welcome of", "funny">>)>>

-----------------------------------------------------------------------------
(* --reconfigure with the key submitted again while the listing is awaited *)

InitLate ==
    Boot({Cmd(Empty, Empty, Empty, Empty, TRUE)}, {Absent}, MaxLateTurns, MaxResubmits)

NextLate ==
    \/ loadSavedConfigReconfigure
    \/ setTempApiKey
    \/ handleApiKeySubmit
    \/ fetchAvailableModelsOk
    \/ fetchAvailableModelsFailed
    \/ setSelectedModel
    \/ handleModelSubmit
    \/ pressUp
    \/ pressDown
    \/ pressReturn
    \/ pressEscape
    \/ pressCtrlC
    \/ setInput
    \/ submitTurn
    \/ completionResolves

SpecLate == InitLate /\ [][NextLate]_vars

\* the calls awaited: model listings and chat completions
InFlight == modelCalls + chatCalls

\* C16: at most one external call is in flight, and isLoading is set while
\* one is.
C16_OneCallAtATime ==
    /\ InFlight <= 1
    /\ InFlight > 0 => isLoading

-----------------------------------------------------------------------------
(* Setup on every command line and every file, no chat turn *)

InitSetup == Boot(CommandLines, Files, 0, MaxKeySubmits)

NextSetup ==
    \/ loadSavedConfig
    \/ loadSavedConfigReconfigure
    \/ setTempApiKey
    \/ handleApiKeySubmit
    \/ fetchAvailableModelsOk
    \/ fetchAvailableModelsFailed
    \/ setSelectedModel
    \/ handleModelSubmit
    \/ pressUp
    \/ pressDown
    \/ pressReturn
    \/ pressEscape
    \/ pressCtrlC

SpecSetup == InitSetup /\ [][NextSetup]_vars

\* something other than a quit key can happen: an input field or the
\* personality list takes keys, or an awaited call will resume
SomethingEnabled ==
    \/ ApiKeyInputShown(St) \/ ModelInputShown(St) \/ ChatInputShown(St)
    \/ setupStep = "personality-selection"
    \/ loadPending \/ InFlight > 0

-----------------------------------------------------------------------------
(* The model screen and the way into Complete *)

\* setup was entered for want of a key: none on the command line, none in
\* the environment, none in the record, and no --reconfigure
NoKeyAtStart == initialApiKey = Empty /\ ~RecordUsable /\ ~reconfigure

\* C14: a model submission with text records the trimmed text as the model
\* and leaves the machine on the personality screen; in a run that entered
\* setup for want of a key, Complete is entered only by the confirm on the
\* personality screen; a submission of nothing but whitespace changes
\* nothing.
C14_ModelThenPersonality ==
    [][/\ (handleModelSubmit /\ ModelAccepted(St))
          => /\ finalModel' = Trim(selectedModel)
             /\ setupStep' = "personality-selection"
       /\ (handleModelSubmit /\ ~ModelAccepted(St))
          => UNCHANGED <<comp, file, written>>
       /\ (NoKeyAtStart /\ setupStep # "complete" /\ setupStep' = "complete")
          => (pressReturn /\ setupStep = "personality-selection")]_vars

-----------------------------------------------------------------------------
(* The order of the setup steps *)

Rank(step) ==
    CASE step = "api-key" -> 1
      [] step = "model-selection" -> 2
      [] step = "personality-selection" -> 3
      [] step = "complete" -> 4

\* C15: the step never moves back: from Complete it goes nowhere, and from
\* any step it goes only to a later one.
C15_StepsNeverGoBack ==
    [][Rank(setupStep') >= Rank(setupStep)]_vars

-----------------------------------------------------------------------------
(* What the model listing decides *)

\* C17: when the listing resolves with success the machine is on the model
\* screen with the processed list and the default selection filled in; when
\* it fails the list is empty, the model is the fallback identifier and the
\* machine is on the personality screen.
C17_ListingDecidesTheStep ==
    [][/\ fetchAvailableModelsOk
          => /\ setupStep' = "model-selection"
             /\ \E raw \in RawLists : availableModels' = ProcessModels(raw)
             /\ selectedModel' = FreeModel
       /\ fetchAvailableModelsFailed
          => /\ availableModels' = <<>>
             /\ finalModel' = SonnetModel
             /\ setupStep' = "personality-selection"]_vars

-----------------------------------------------------------------------------
(* A completion without content *)

\* responses with success status whose body has no choices[0].message.content
MissingContent ==
    {r \in ChatResponses :
        r.kind \in {"nochoices", "emptychoices", "nomessage", "nocontent"}}

\* C18: for a success response without choices[0].message.content the
\* Message appended is an error entry, and no Message of the Transcript is
\* without content.
C18_MissingContentIsFailure ==
    [][\A resp \in MissingContent :
          sendMessageResumes(resp)
          => /\ Len(messages') = Len(messages) + 1
             /\ IsErrorEntry(messages'[Len(messages')])
             /\ \A i \in 1..Len(messages') : messages'[i].content # Undefined]_vars

-----------------------------------------------------------------------------
(* Once the chat has begun *)

IsPrefix(a, b) == Len(a) <= Len(b) /\ \A i \in 1..Len(a) : a[i] = b[i]

\* C19: once a turn has been sent through the chat input, every change of
\* the Transcript adds Messages at its end.
C19_TranscriptOnlyGrows ==
    [][lastRequest # NoRequest => IsPrefix(messages, messages')]_vars

\* C20: from a state in which the chat input is shown, no event changes the
\* resolved key, model or personality.
C20_ConfigurationIsFixed ==
    [][(Running /\ ChatInputShown(St))
       => UNCHANGED <<finalApiKey, finalModel, finalPersonality>>]_vars

-----------------------------------------------------------------------------
(* One request and one answer per turn *)

\* the Message that the claim expects for the response resp
IsAnswerTo(m, resp) ==
    IF resp.kind = "ok"
    THEN m = Msg("assistant", resp.content)
    ELSE IsErrorEntry(m)

\* C21: an accepted submit adds the user Message and issues one request;
\* when the request resolves, one assistant Message is added directly after
\* the user Message (the content of the first choice on success, an error
\* entry otherwise), the busy flag is cleared, no further request is issued
\* and the session is idle again.
C21_OneRequestOneAnswer ==
    [][/\ turnsLeft' # turnsLeft
          => /\ chatCalls' = chatCalls + 1
             /\ messages' = Append(messages, UserMessage(St))
             /\ isLoading'
       /\ \A resp \in ChatResponses :
             sendMessageResumes(resp)
             => /\ messages[Len(messages)].role = "user"
                /\ Len(messages') = Len(messages) + 1
                /\ IsAnswerTo(messages'[Len(messages')], resp)
                /\ ~isLoading'
                /\ chatCalls' = 0
                /\ lastRequest' = lastRequest
                /\ phase' = "running"]_vars

-----------------------------------------------------------------------------
(* The cursor of the personality screen *)

LastIndex == Len(getPersonalityOptions) - 1

-----------------------------------------------------------------------------
(* The model listing against its reference *)

MaxRawLen == 20

\* what a listing may hold: popular entries, free ones, entries below the
\* context floor, entries without a name, two entries of the same name
ListingPool ==
    << RawModel(<<"zeta/model">>, Empty, 8000),
       RawModel(<<"openai/gpt-3.5-turbo">>, <<"GPT-3.5 Turbo">>, 16000),
       RawModel(<<"vendor/", "free", "-model">>, Empty, 8000),
       RawModel(<<"m/kappa">>, <<"Kappa">>, 4000),
       RawModel(<<"vendor/small">>, Empty, 2000),
       RawModel(<<"anthropic/claude-3.5-sonnet">>, <<"Claude 3.5 Sonnet">>, 200000),
       RawModel(<<"m/delta">>, <<"Delta">>, 8000),
       RawModel(<<"a/b">>, <<"Alpha">>, 4000),
       RawModel(<<"openai/gpt-4">>, <<"GPT-4">>, 8000),
       RawModel(<<"m/echo">>, <<"Echo">>, 3999),
       RawModel(<<"m/alpha-2">>, <<"Alpha">>, 8000),
       RawModel(<<"anthropic/claude-3-haiku">>, Empty, 200000),
       RawModel(<<"m/eta">>, <<"Eta">>, 32000),
       RawModel(<<"m/beta">>, <<"Beta">>, 8000),
       RawModel(<<"openai/gpt-4", ":", "free">>, <<"GPT-4">>, 8000),
       RawModel(<<"m/gamma">>, Empty, 8000),
       RawModel(<<"m/iota">>, <<"Iota">>, 8000),
       RawModel(<<"m/theta">>, <<"Theta">>, 8000),
       RawModel(<<"m/lambda">>, <<"Lambda">>, 8000),
       RawModel(<<"m/mu">>, <<"Mu">>, 8000),
       RawModel(<<"m/nu">>, <<"Nu">>, 8000),
       RawModel(<<"m/xi">>, <<"Xi">>, 8000) >>

\* n entries of the pool, taken in a circle from the one after offset
ListingFrom(offset, n) ==
    [i \in 1..n |-> ListingPool[((offset + i - 1) % Len(ListingPool)) + 1]]

ListingOffsets == {0, 5, 11, 16}

ListingInputs ==
    {ListingFrom(o, n) : o \in ListingOffsets, n \in 0..MaxRawLen}

\* fetchAvailableModels resumes with the listing raw (cli.tsx 379-417, 424)
fetchAvailableModelsOn(raw) ==
    /\ Running /\ modelCalls > 0
    /\ \E r \in {Settle(St, ModelsFetchedState(St, raw), file, <<>>)} : Commit(r)
    /\ modelCalls' = modelCalls - 1
    /\ UNCHANGED <<world, loadPending, chatCalls, lastRequest, turnsLeft,
                   submitsLeft, sendCalls, userActed>>

fetchListing == \E raw \in ListingInputs : fetchAvailableModelsOn(raw)

InitListing ==
    Boot({Cmd(Empty, Empty, Empty, Empty, FALSE)}, {Absent}, 0, MaxKeySubmits)

NextListing ==
    \/ loadSavedConfig
    \/ setTempApiKey
    \/ handleApiKeySubmit
    \/ fetchListing

SpecListing == InitListing /\ [][NextListing]_vars

\* the reference: the positions of the entries that are kept
Eligible(raw) ==
    {i \in 1..Len(raw) :
        /\ ~Includes(raw[i].id, "free")
        /\ raw[i].context_length >= MinContextLength}

DisplayName(m) == IF m.name = Empty THEN m.id ELSE m.name

\* the entry at i stands before the entry at j: popular entries first, in
\* the order of the popular list, the others by display name; entries that
\* compare equal keep the order of the listing
GoesBefore(raw, i, j) ==
    LET pi == IndexOf(PopularModels, raw[i].id)
        pj == IndexOf(PopularModels, raw[j].id)
        ni == IndexOf(Collation, DisplayName(raw[i]))
        nj == IndexOf(Collation, DisplayName(raw[j]))
    IN IF pi # 0 /\ pj # 0 THEN pi < pj \/ (pi = pj /\ i < j)
       ELSE IF pi # 0 THEN TRUE
       ELSE IF pj # 0 THEN FALSE
       ELSE ni < nj \/ (ni = nj /\ i < j)

Reference(raw) ==
    LET kept == Eligible(raw)
        place == [i \in kept |->
                     Cardinality({j \in kept : GoesBefore(raw, j, i)}) + 1]
        count == IF Cardinality(kept) < MaxModels
                 THEN Cardinality(kept) ELSE MaxModels
    IN [p \in 1..count |->
           LET i == CHOOSE k \in kept : place[k] = p
           IN [id |-> raw[i].id, name |-> DisplayName(raw[i]),
               context_length |-> raw[i].context_length]]

\* C23: whenever a listing arrives, the models offered are the reference
\* computation of that listing: the entries whose id does not contain
\* "free" and whose context length is at least 4000, the popular ones first
\* in the order of the popular list and the others by display name (the id
\* where no name is given), cut after the first 15.
C23_ListingIsReference ==
    [][\A raw \in ListingInputs :
          fetchAvailableModelsOn(raw) => availableModels' = Reference(raw)]_vars

\* a listing of more than 15 eligible entries was cut to 15: the four
\* popular models lead, the two entries named Alpha follow in the order of
\* the listing, and the entry named zeta/model is cut
C23_Witness ==
    /\ Running /\ setupStep = "model-selection"
    /\ Len(availableModels) = MaxModels
    /\ \A i \in 1..Len(PopularModels) : availableModels[i].id = PopularModels[i]
    /\ availableModels[Len(PopularModels) + 1].name = <<"Alpha">>
    /\ availableModels[Len(PopularModels) + 2].name = <<"Alpha">>
    /\ availableModels[MaxModels].name = <<"Theta">>

-----------------------------------------------------------------------------
(* The configuration is complete *)

\* credential and model are given and the personality is one of the catalog
IsComplete(apiKey, model, personality) ==
    /\ apiKey # Empty
    /\ model # Empty
    /\ InCatalog(personality)

\* C24: whenever the chat input is shown, and in every record saved, the
\* credential and the model identifier are not empty and the personality id
\* is the id of an entry of the catalog.
C24_ConfigurationIsComplete ==
    /\ (Running /\ ChatInputShown(St))
          => IsComplete(finalApiKey, finalModel, finalPersonality)
    /\ \A i \in 1..Len(written) :
          IsComplete(written[i].apiKey, written[i].model, written[i].personality)

-----------------------------------------------------------------------------
(* No turn before the setup is complete *)

\* a step that submits a turn: a completion request is issued
IssuesRequest ==
    \/ chatCalls' > chatCalls
    \/ turnsLeft' # turnsLeft
    \/ lastRequest' # lastRequest

\* C25: a completion request is issued only in a state whose setup step is
\* complete and whose Transcript starts with the welcome message; while the
\* step is one of the setup steps, also after it had been complete, the chat
\* input is not shown and no request is issued.
C25_NoTurnBeforeComplete ==
    /\ [](setupStep # "complete" => ~ChatInputShown(St))
    /\ [][IssuesRequest =>
             /\ setupStep = "complete"
             /\ messages # <<>>
             /\ IsWelcome(messages[1])]_vars

\* the setup had been complete, the welcome message placed and the input
\* enabled; then the listing asked for with the key came in and put the
\* machine back on the model screen, where no call is in flight
C25_Witness ==
    /\ Running
    /\ setupStep = "model-selection"
    /\ isInputMode /\ ~isLoading
    /\ messages # <<>> /\ IsWelcome(messages[1])

====
